---- MODULE Spec2Model ----
(***************************************************************************)
(* The frequency-demodulation pipeline of freqdemod.py: one Signal object  *)
(* (the dict self.signal and the list self.report) and its stage methods   *)
(* binarate, window, fft, filter, ifft, trim and fit.                      *)
(*                                                                         *)
(* Numbers.  Reals are exact rationals <<p, q>> in lowest terms with       *)
(* q > 0; <<0, 0>> is the non-finite float (nan).  Times (dt, tw,          *)
(* dt_chunk_target, the time array) are integers in one time unit.         *)
(* Complex numbers are pairs <<a, b>> of rationals standing for a + b*u,   *)
(* with u = i for transforms of length 1, 2, 4 and u = exp(2 pi i / 3) for *)
(* length 3: the twiddle factors of those lengths are exact in that form.  *)
(* The source is Python 2 (print statement at line 639): int / int is      *)
(* floor division and round() rounds halves away from zero.                *)
(***************************************************************************)
EXTENDS Integers, Sequences, FiniteSets, TLC

VARIABLES
    created,    \* a Signal object has been constructed
    signal,     \* self.signal: the dict, a function from its keys
    report,     \* self.report: the list of report strings
    last,       \* the last call: [op, arg, ok]; ok = FALSE when it raised
    nrepeats    \* calls so far that repeated the stage of the call before

vars == <<created, signal, report, last, nrepeats>>

\* ---------------------------------------------------------------- bounds
MaxLen == 3         \* longest sample sequence handed to Signal()
MaxRepeats == 1     \* calls that repeat the stage of the call before
MaxBinLen == 7      \* longest sample sequence in the binarate-only runs
MaxWinLen == 5      \* longest sample sequence in the window-only runs
MaxAxisLen == 6     \* longest sample sequence in the frequency-axis runs
MaxFitLen == 6      \* longest sample sequence in the fit runs

SampleVals == {0, 1}
DtVals == {0, 1, 2}
Modes == {"start", "middle", "end", "other"}
TwVals == {0, 1}
TwWinVals == {0, 1, 2}
ChunkVals == {0, 1, 2, 3}
BwVals == {<<0, 1>>, <<1, 2>>, <<1, 1>>}
OrderVals == {2}
PhaseVals == {0, 1}

\* ------------------------------------------------------------- sequences
SeqsUpTo(V, n) == UNION {[1..k -> V] : k \in 0..n}

\* the sample sequences handed to Signal(): step signals 0..0 1..1
StepSignals(n) ==
    {x \in SeqsUpTo(SampleVals, n) : \A i \in 1..(Len(x) - 1) : x[i] <= x[i + 1]}

\* constant records: every sample the same value
ConstSignals(n) == {[i \in 1..k |-> v] : k \in 0..n, v \in SampleVals}

Min(a, b) == IF a < b THEN a ELSE b
Max(a, b) == IF a > b THEN a ELSE b

\* Python's x[start:stop] on a sequence (0-based bounds, negative bounds
\* count from the end, bounds are clamped).
PyIndex(i, L) == IF i < 0 THEN Max(i + L, 0) ELSE Min(i, L)
PySlice(x, start, stop) ==
    LET a == PyIndex(start, Len(x))
        b == PyIndex(stop, Len(x))
    IN  IF a >= b THEN << >> ELSE SubSeq(x, a + 1, b)

\* x[list(np.arange(a, b))]: the elements at 0-based indices a .. b-1.
TakeRange(x, a, b) == [i \in 1..(b - a) |-> x[a + i]]


\* ------------------------------------------------------------- rationals
NaN == <<0, 0>>
IsNaN(x) == x[2] = 0

Abs(a) == IF a < 0 THEN -a ELSE a

GCD(a, b) ==
    LET RECURSIVE G(_, _)
        G(x, y) == IF y = 0 THEN x ELSE G(y, x % y)
    IN G(Abs(a), Abs(b))

\* p / q as a float: lowest terms, positive denominator; x / 0 is non-finite
Q(p, q) ==
    IF q = 0 THEN NaN
    ELSE LET g == GCD(p, q)
             sgn == IF q < 0 THEN -1 ELSE 1
         IN <<sgn * (p \div g), sgn * (q \div g)>>

QInt(n) == <<n, 1>>
QAdd(x, y) == IF IsNaN(x) \/ IsNaN(y) THEN NaN
              ELSE Q(x[1] * y[2] + y[1] * x[2], x[2] * y[2])
QNeg(x) == IF IsNaN(x) THEN NaN ELSE <<-x[1], x[2]>>
QSub(x, y) == QAdd(x, QNeg(y))
QMul(x, y) == IF IsNaN(x) \/ IsNaN(y) THEN NaN
              ELSE Q(x[1] * y[1], x[2] * y[2])
QDiv(x, y) == IF IsNaN(x) \/ IsNaN(y) THEN NaN
              ELSE Q(x[1] * y[2], x[2] * y[1])
QAbs(x) == IF IsNaN(x) THEN NaN ELSE <<Abs(x[1]), x[2]>>
QLess(x, y) == x[1] * y[2] < y[1] * x[2]
QPow(x, k) ==
    LET RECURSIVE P(_)
        P(j) == IF j = 0 THEN QInt(1) ELSE QMul(x, P(j - 1))
    IN P(k)

\* int(x) of a finite float p/q: truncation toward zero
Trunc(x) == IF x[1] >= 0 THEN x[1] \div x[2] ELSE -((-x[1]) \div x[2])
\* math.ceil(p/q), q > 0
Ceil(x) == -((-x[1]) \div x[2])
\* Python 2 round(p/q): to nearest, halves away from zero
Round(x) == IF x[1] >= 0 THEN (2 * x[1] + x[2]) \div (2 * x[2])
            ELSE -((2 * (-x[1]) + x[2]) \div (2 * x[2]))

\* ---------------------------------------------------- complex numbers
\* <<a, b>> is a + b*u; Eis selects u = exp(2 pi i/3) (u*u = -1 - u),
\* otherwise u = i.
CZero == <<QInt(0), QInt(0)>>
CNaN == <<NaN, NaN>>
CIsNaN(c) == IsNaN(c[1]) \/ IsNaN(c[2])
CIsZero(c) == c = CZero
CAdd(c, d) == <<QAdd(c[1], d[1]), QAdd(c[2], d[2])>>
CScale(x, c) == <<QMul(x, c[1]), QMul(x, c[2])>>
CMul(eis, c, d) ==
    LET ac == QMul(c[1], d[1])
        bd == QMul(c[2], d[2])
        cross == QAdd(QMul(c[1], d[2]), QMul(c[2], d[1]))
    IN  IF eis THEN <<QSub(ac, bd), QSub(cross, bd)>>
        ELSE <<QSub(ac, bd), cross>>
\* |c|^2
Norm2(eis, c) ==
    LET aa == QMul(c[1], c[1])
        bb == QMul(c[2], c[2])
    IN  IF eis THEN QAdd(QSub(aa, QMul(c[1], c[2])), bb) ELSE QAdd(aa, bb)

Eis(n) == n = 3

\* exp(-2 pi i m / n) for the transform lengths 1, 2, 3, 4
RootPow(n, m) ==
    LET r == m % n
        C(a, b) == <<QInt(a), QInt(b)>>
    IN  CASE n = 1 -> C(1, 0)
          [] n = 2 -> IF r = 0 THEN C(1, 0) ELSE C(-1, 0)
          [] n = 3 -> IF r = 0 THEN C(1, 0)
                      ELSE IF r = 1 THEN C(-1, -1) ELSE C(0, 1)
          [] n = 4 -> IF r = 0 THEN C(1, 0)
                      ELSE IF r = 1 THEN C(0, -1)
                      ELSE IF r = 2 THEN C(-1, 0) ELSE C(0, 1)

CSum(f, n) ==
    LET RECURSIVE Acc(_)
        Acc(j) == IF j = 0 THEN CZero ELSE CAdd(f[j], Acc(j - 1))
    IN Acc(n)

\* X[k] = sum_j x[j] exp(-2 pi i j k / n), x complex, for n = 1, 2, 3, 4
DFTExact(x) ==
    LET n == Len(x)
    IN  [k \in 1..n |->
            CSum([j \in 1..n |->
                    CMul(Eis(n), x[j], RootPow(n, (j - 1) * (k - 1)))], n)]

\* np.fft.fft(x).  Beyond length 4 the transform is taken of constant
\* records only: the powers of a root of unity sum to zero, so the
\* transform of c, c, ..., c is n*c, 0, ..., 0.
DFT(x) ==
    LET n == Len(x)
    IN  IF n > 4 /\ \A j \in 1..n : x[j] = x[1]
        THEN [k \in 1..n |-> IF k = 1 THEN CScale(QInt(n), x[1]) ELSE CZero]
        ELSE DFTExact(x)

\* x[j] = (1/n) sum_k X[k] exp(+2 pi i j k / n), for n = 1, 2, 3, 4
IDFTExact(X) ==
    LET n == Len(X)
    IN  [j \in 1..n |->
            IF \E k \in 1..n : CIsNaN(X[k]) THEN CNaN
            ELSE CScale(Q(1, n),
                   CSum([k \in 1..n |->
                      CMul(Eis(n), X[k],
                           RootPow(n, n * n - (j - 1) * (k - 1)))], n))]

\* np.fft.ifft(X).  Beyond length 4 the inverse transform is taken of
\* spectra a, 0, ..., 0 only (those of constant records): it is a/n at every
\* sample.
IDFT(X) ==
    LET n == Len(X)
    IN  IF n > 4 /\ \A k \in 2..n : X[k] = CZero
        THEN [j \in 1..n |-> CScale(Q(1, n), X[1])]
        ELSE IDFTExact(X)

\* np.fft.fftshift(x): y[i] = x[(i + (n+1)//2) mod n]
FftShift(x) ==
    LET n == Len(x)
        p2 == (n + 1) \div 2
    IN  [i \in 1..n |-> x[((i - 1 + p2) % n) + 1]]

\* np.fft.fftfreq(n, d): [0, 1, ..., (n-1)//2, -(n//2), ..., -1] / (d*n)
FftFreq(n, d) ==
    LET np == ((n - 1) \div 2) + 1
    IN  [i \in 1..n |->
            IF i <= np THEN Q(i - 1, d * n) ELSE Q((i - 1) - n, d * n)]

\* ------------------------------------------------------------------ dict
Has(d, k) == k \in DOMAIN d
Put(d, k, v) == [x \in (DOMAIN d) \cup {k} |-> IF x = k THEN v ELSE d[x]]
EmptyDict == [x \in {} |-> 0]

\* what a call leaves behind: the dict, and whether it returned normally
Done(d) == [sig |-> d, ok |-> TRUE]
Raise(d) == [sig |-> d, ok |-> FALSE]

\* ---------------------------------------------------------- the report
\* the report entry a call appends when it returns
EntryOf(op) ==
    CASE op = "init" -> "Add a signal"
      [] op = "binarate" -> "Truncate the signal"
      [] op = "window" -> "Window the signal"
      [] op = "fft" -> "Fourier transform the windowed signal"
      [] op = "filter" -> "Reject negative frequencies"
      [] op = "ifft" -> "Apply an inverse Fourier transform"
      [] op = "trim" -> "Remove the leading and trailing ripple"
      [] op = "fit" -> "Curve fit the phase data"

\* ------------------------------------------------------------ __init__
\* dt * np.arange(0, len(s))
TimeAxis(dt, n) == [i \in 1..n |-> dt * (i - 1)]

InitSignal(s, dt) ==
    Put(Put(Put(EmptyDict, "s", s), "dt", dt), "t", TimeAxis(dt, Len(s)))

Ingest(s, dt) ==
    /\ ~created
    /\ created' = TRUE
    /\ signal' = InitSignal(s, dt)
    /\ report' = <<EntryOf("init")>>
    /\ last' = [op |-> "init", arg |-> dt, ok |-> TRUE]
    /\ nrepeats' = nrepeats

\* ------------------------------------------------------------ binarate
FloorLog2(n) ==
    LET RECURSIVE F(_)
        F(m) == IF m < 2 THEN 0 ELSE 1 + F(m \div 2)
    IN F(n)

Pow2(k) ==
    LET RECURSIVE P(_)
        P(j) == IF j = 0 THEN 1 ELSE 2 * P(j - 1)
    IN P(k)

\* n2 = int(math.pow(2, int(math.floor(math.log(n, 2)))))
N2(n) == Pow2(FloorLog2(n))

\* NStart with the middle offset rounded up instead of down
NStartCeil(mode, n, n2) ==
    CASE mode = "middle" -> (n - n2 + 1) \div 2
      [] mode = "start"  -> 0
      [] mode = "end"    -> n - n2
      [] OTHER           -> 0

NStart(mode, n, n2) ==
    CASE mode = "middle" -> (n - n2) \div 2
      [] mode = "start"  -> 0
      [] mode = "end"    -> n - n2
      [] OTHER           -> 0

NStop(mode, n, n2) ==
    CASE mode = "middle" -> NStart(mode, n, n2) + n2
      [] mode = "start"  -> n2
      [] mode = "end"    -> n
      [] OTHER           -> n

\* BinarateCall that truncates the samples and forgets the time array
BinarateCallSamplesOnly(sig, mode) ==
    LET d1 == Put(Put(sig, "s_original", sig["s"]), "t_original", sig["t"])
        n == Len(sig["s"])
        n2 == N2(n)
        a == NStart(mode, n, n2)
        b == NStop(mode, n, n2)
        d2 == Put(d1, "s", TakeRange(sig["s"], a, b))
    IN  IF n = 0 THEN Raise(d1) ELSE Done(d2)

BinarateCall(sig, mode) ==
    LET d1 == Put(Put(sig, "s_original", sig["s"]), "t_original", sig["t"])
        n == Len(sig["s"])
        n2 == N2(n)
        a == NStart(mode, n, n2)
        b == NStop(mode, n, n2)
        d2 == Put(d1, "s", TakeRange(sig["s"], a, b))
        d3 == Put(d2, "t", TakeRange(sig["t"], a, b))
    IN  IF n = 0 THEN Raise(d1)                 \* math.log(0, 2)
        ELSE IF b > Len(sig["t"]) THEN Raise(d2) \* index out of bounds in t
        ELSE Done(d3)


\* -------------------------------------------------------------- window
\* sp.blackman(M): 0.42 - 0.5 cos(2 pi k/(M-1)) + 0.08 cos(4 pi k/(M-1)),
\* rational for the lengths M = 2*ww the bounds admit (0, 2 and 4)
Blackman(M) ==
    CASE M = 0 -> << >>
      [] M = 2 -> <<QInt(0), QInt(0)>>
      [] M = 4 -> <<QInt(0), Q(63, 100), Q(63, 100), QInt(0)>>

\* WindowWidth rounding the quotient down instead of up
WindowWidthFloor(tw, dt) == Trunc(Q(tw, dt))

\* ww = int(math.ceil((1.0*tw)/(1.0*dt)))
WindowWidth(tw, dt) == Ceil(Q(tw, dt))

Ones(n) == [i \in 1..n |-> QInt(1)]

\* np.concatenate([blackman(2*ww)[0:ww], np.ones(n-2*ww), blackman(2*ww)[-ww:]])
WindowArray(n, ww) ==
    PySlice(Blackman(2 * ww), 0, ww) \o Ones(n - 2 * ww)
        \o (IF ww = 0 THEN Blackman(0) ELSE PySlice(Blackman(2 * ww), -ww, 2 * ww))

WindowCall(sig, tw) ==
    LET dt == sig["dt"]
        ww == WindowWidth(tw, dt)
        n == Len(sig["s"])
        w == WindowArray(n, ww)
        d1 == Put(sig, "w", w)
        d2 == Put(d1, "sw", [i \in 1..n |-> QMul(w[i], QInt(sig["s"][i]))])
        d3 == Put(d2, "tw_actual", ww * dt)
    IN  IF dt = 0 THEN Raise(sig)              \* float division by zero
        ELSE IF n - 2 * ww < 0 THEN Raise(sig) \* np.ones(negative)
        ELSE Done(d3)

\* ----------------------------------------------------------------- fft
FftCall(sig) ==
    IF ~Has(sig, "sw") THEN Raise(sig)                     \* KeyError
    ELSE
    LET n == Len(sig["sw"])
        dt == sig["dt"]
        d1 == Put(sig, "swFT",
                  FftShift(DFT([i \in 1..n |-> <<sig["sw"][i], QInt(0)>>])))
        f == FftShift(FftFreq(n, dt))
        d2 == Put(d1, "f", f)
        d3 == Put(d2, "df", QSub(f[2], f[1]))
    IN  IF n = 0 THEN Raise(sig)            \* invalid number of data points
        ELSE IF dt = 0 THEN Raise(d1)       \* 1.0/(n*d) in fftfreq
        ELSE IF n < 2 THEN Raise(d2)        \* f[1]: index out of bounds
        ELSE Done(d3)

\* -------------------------------------------------------------- filter
\* RightHand on the axis f itself, without the half-bin shift
RightHandUnshifted(f, df) ==
    [k \in 1..Len(f) |->
        LET x == f[k]
        IN  QDiv(QAdd(QAbs(x), x), QAbs(x))]

\* rh = (abs(f_shifted) + f_shifted)/abs(f_shifted), f_shifted = f - df/2
RightHand(f, df) ==
    [k \in 1..Len(f) |->
        LET x == QSub(f[k], QDiv(df, QInt(2)))
        IN  QDiv(QAdd(QAbs(x), x), QAbs(x))]

\* np.argmax(abs(x)): the first index of the largest magnitude (1-based)
ArgMaxAbs(x) ==
    LET n == Len(x)
        m(k) == Norm2(Eis(n), x[k])
    IN  CHOOSE k \in 1..n :
            /\ \A j \in 1..n : ~QLess(m(k), m(j))
            /\ \A j \in 1..(k - 1) : QLess(m(j), m(k))

\* bp = 1.0/(1.0 + np.power(abs((f - f0)/bw), order)); with bw = 0 the
\* quotient is nan at f = f0 (0/0) and infinite elsewhere (bp = 0)
BandPass(f, f0, bw, order) ==
    [k \in 1..Len(f) |->
        IF bw[1] = 0
        THEN IF f[k] = f0 THEN NaN ELSE QInt(0)
        ELSE QDiv(QInt(1),
                  QAdd(QInt(1), QPow(QAbs(QDiv(QSub(f[k], f0), bw)), order)))]

\* (a*b).sum()/b.sum() with a = f and b = abs(swFTfilt).  The quotient is
\* nan when b is all zero or holds a nan; a spectrum with one nonzero bin
\* (all that lengths up to 4 leave right of zero) has the moment f[bin].
Moment(f, y) ==
    LET nz == {k \in 1..Len(y) : ~CIsZero(y[k])}
    IN  IF nz = {} \/ \E k \in nz : CIsNaN(y[k]) THEN NaN
        ELSE CASE Cardinality(nz) = 1 -> f[CHOOSE k \in nz : TRUE]

FilterCall(sig, bw, order) ==
    LET d1 == Put(Put(sig, "bw", bw), "order", order)
    IN  IF ~Has(sig, "f") \/ ~Has(sig, "df") THEN Raise(d1)   \* KeyError
        ELSE
        LET f == sig["f"]
            rh == RightHand(f, sig["df"])
            d2 == Put(d1, "rh", rh)
        IN  IF Len(rh) # Len(sig["swFT"]) THEN Raise(d2)      \* broadcast
            ELSE
            LET swFTrh == [k \in 1..Len(f) |-> CScale(rh[k], sig["swFT"][k])]
                f0 == f[ArgMaxAbs(swFTrh)]
                d3 == Put(d2, "f0", f0)
                bp == BandPass(f, f0, bw, order)
                d4 == Put(d3, "bp", bp)
                filt == [k \in 1..Len(f) |-> CScale(bp[k], swFTrh[k])]
                d5 == Put(d4, "swFTfilt", filt)
                d6 == Put(d5, "f00", Moment(f, filt))
                d7 == Put(d6, "td", QDiv(Q(5, 4), bw))
            IN  IF bw[1] = 0 THEN Raise(d6)         \* 1.25/bw
                ELSE Done(d7)

\* ---------------------------------------------------------------- ifft
\* z = np.fft.ifft(np.fft.fftshift(swFTfilt))
AnalyticSignal(swFTfilt) == IDFT(FftShift(swFTfilt))

\* theta = np.unwrap(np.angle(z))/(2*np.pi) is transcendental in z: the
\* phase trace is any sequence over PhaseVals (nan where z is nan).
\* a = abs(z) is kept as its square.
IfftCall(sig, z, theta) ==
    IF ~Has(sig, "swFTfilt") THEN Raise(sig)                  \* KeyError
    ELSE
    LET n == Len(z)
        d1 == Put(sig, "z", z)
        d2 == Put(d1, "theta",
                  [i \in 1..n |-> IF CIsNaN(z[i]) THEN NaN ELSE QInt(theta[i])])
        d3 == Put(d2, "a", [i \in 1..n |-> Norm2(Eis(n), z[i])])
    IN  Done(d3)

\* ---------------------------------------------------------------- trim
\* id = int(td/dt)
TrimCount(td, dt) == Trunc(QDiv(td, QInt(dt)))

\* x[id:-id]
TrimSlice(x, id) == PySlice(x, id, -id)

TrimCall(sig) ==
    IF ~Has(sig, "td") THEN Raise(sig)                        \* KeyError
    ELSE IF sig["dt"] = 0 THEN Raise(sig)          \* float division by zero
    ELSE IF ~Has(sig, "z") THEN Raise(sig)                    \* KeyError
    ELSE
    LET id == TrimCount(sig["td"], sig["dt"])
        d1 == Put(sig, "z", TrimSlice(sig["z"], id))
        d2 == Put(d1, "theta", TrimSlice(sig["theta"], id))
        d3 == Put(d2, "a", TrimSlice(sig["a"], id))
        d4 == Put(d3, "t", TrimSlice(sig["t"], id))
    IN  Done(d4)

\* ----------------------------------------------------------------- fit
\* n_per_chunk = int(round(dt_chunk_target/dt))
NPerChunk(dtc, dt) == Round(Q(dtc, dt))

\* NTotChunk rounding the true quotient to the nearest integer
NTotChunkNearest(size, npc) == (2 * size + npc) \div (2 * npc)

\* n_tot_chunk = int(round(theta.size/n_per_chunk)): the quotient of two
\* ints is already the floor when round() sees it
NTotChunk(size, npc) == size \div npc

QSum(f, n) ==
    LET RECURSIVE Acc(_)
        Acc(j) == IF j = 0 THEN QInt(0) ELSE QAdd(f[j], Acc(j - 1))
    IN Acc(n)

\* SXX with 2n+1 for 2n-1: the sum of squares to n, not to n-1
SXXToN(dt, n) == QMul(QInt(dt * dt), Q(n * (n - 1) * (2 * n + 1), 6))

\* SX and SXX of the chunk's time axis 0, dt, ..., (n-1)*dt
SX(dt, n) == QMul(QInt(dt), Q((n - 1) * n, 2))
SXX(dt, n) == QMul(QInt(dt * dt), Q(n * (n - 1) * (2 * n - 1), 6))

\* the slope of chunk c (0-based) of npc samples
Slope(theta, t, dt, npc, c) ==
    LET y(k) == QSub(theta[c * npc + k], theta[c * npc + 1])
        x(k) == QInt(t[c * npc + k] - t[c * npc + 1])
        SY == QSum([k \in 1..npc |-> y(k)], npc)
        SXY == QSum([k \in 1..npc |-> QMul(x(k), y(k))], npc)
        n == QInt(npc)
    IN  QDiv(QSub(QMul(n, SXY), QMul(SX(dt, npc), SY)),
             QSub(QMul(n, SXX(dt, npc)), QMul(SX(dt, npc), SX(dt, npc))))

\* FitCall keeping the reset time of each chunk's first sample
FitCallResetTime(sig, dtc) ==
    IF sig["dt"] = 0 THEN Raise(sig)
    ELSE IF ~Has(sig, "theta") THEN Raise(sig)
    ELSE
    LET dt == sig["dt"]
        npc == NPerChunk(dtc, dt)
    IN  IF npc = 0 THEN Raise(sig)
        ELSE
        LET ntc == NTotChunk(Len(sig["theta"]), npc)
            n_total == npc * ntc
            t_used == PySlice(sig["t"], 0, n_total)
        IN  IF Len(t_used) # n_total THEN Raise(sig)
            ELSE
            LET d1 == Put(sig, "fit_freq",
                          [c \in 1..ntc |->
                              Slope(sig["theta"], sig["t"], dt, npc, c - 1)])
                d2 == Put(d1, "fit_time", [c \in 1..ntc |-> 0])
            IN  Done(d2)

FitCall(sig, dtc) ==
    IF sig["dt"] = 0 THEN Raise(sig)               \* float division by zero
    ELSE IF ~Has(sig, "theta") THEN Raise(sig)                \* KeyError
    ELSE
    LET dt == sig["dt"]
        npc == NPerChunk(dtc, dt)
    IN  IF npc = 0 THEN Raise(sig)         \* integer division by zero
        ELSE
        LET ntc == NTotChunk(Len(sig["theta"]), npc)
            n_total == npc * ntc
            t_used == PySlice(sig["t"], 0, n_total)
        IN  IF Len(t_used) # n_total THEN Raise(sig)          \* reshape
            ELSE
            LET d1 == Put(sig, "fit_freq",
                          [c \in 1..ntc |->
                              Slope(sig["theta"], sig["t"], dt, npc, c - 1)])
                d2 == Put(d1, "fit_time",
                          [c \in 1..ntc |-> sig["t"][(c - 1) * npc + 1]])
            IN  Done(d2)

\* ----------------------------------------------------------- the calls
\* the place of each stage in the pipeline
StageIdx(op) ==
    CASE op = "binarate" -> 1 [] op = "window" -> 2 [] op = "fft" -> 3
      [] op = "filter" -> 4 [] op = "ifft" -> 5 [] op = "trim" -> 6
      [] op = "fit" -> 7 [] OTHER -> 0

\* the callers considered: they walk the pipeline forward, skipping stages
\* at will and repeating the stage of the call before MaxRepeats times
CanCall(op) ==
    /\ created
    /\ StageIdx(op) >= StageIdx(last.op)
    /\ op = last.op => nrepeats < MaxRepeats

\* Call appending the entry whether the call returned or raised
CallAlwaysLogs(op, arg, res) ==
    /\ nrepeats' = IF op = last.op THEN nrepeats + 1 ELSE nrepeats
    /\ signal' = res.sig
    /\ report' = Append(report, EntryOf(op))
    /\ last' = [op |-> op, arg |-> arg, ok |-> res.ok]
    /\ created' = created

Call(op, arg, res) ==
    /\ nrepeats' = IF op = last.op THEN nrepeats + 1 ELSE nrepeats
    /\ signal' = res.sig
    /\ report' = IF res.ok THEN Append(report, EntryOf(op)) ELSE report
    /\ last' = [op |-> op, arg |-> arg, ok |-> res.ok]
    /\ created' = created

Binarate(mode) ==
    /\ CanCall("binarate")
    /\ Call("binarate", mode, BinarateCall(signal, mode))

Window(tw) ==
    /\ CanCall("window")
    /\ Call("window", tw, WindowCall(signal, tw))

Fft ==
    /\ CanCall("fft")
    /\ Call("fft", 0, FftCall(signal))

Filter(bw, order) ==
    /\ CanCall("filter")
    /\ Call("filter", bw, FilterCall(signal, bw, order))

Ifft ==
    /\ CanCall("ifft")
    /\ LET z == IF Has(signal, "swFTfilt")
                THEN AnalyticSignal(signal["swFTfilt"]) ELSE << >>
       IN  \E theta \in [1..Len(z) -> PhaseVals] :
               Call("ifft", 0, IfftCall(signal, z, theta))

Trim ==
    /\ CanCall("trim")
    /\ Call("trim", 0, TrimCall(signal))

Fit(dtc) ==
    /\ CanCall("fit")
    /\ Call("fit", dtc, FitCall(signal, dtc))

Init ==
    /\ created = FALSE
    /\ signal = EmptyDict
    /\ report = << >>
    /\ last = [op |-> "none", arg |-> 0, ok |-> TRUE]
    /\ nrepeats = 0

Next ==
    \/ \E s \in StepSignals(MaxLen), dt \in DtVals : Ingest(s, dt)
    \/ \E mode \in Modes : Binarate(mode)
    \/ \E tw \in TwVals : Window(tw)
    \/ Fft
    \/ \E bw \in BwVals, order \in OrderVals : Filter(bw, order)
    \/ Ifft
    \/ Trim
    \/ \E dtc \in ChunkVals : Fit(dtc)

Spec == Init /\ [][Next]_vars

\* construction and binarate alone, on longer records
NextBin ==
    \/ \E s \in StepSignals(MaxBinLen), dt \in DtVals : Ingest(s, dt)
    \/ \E mode \in Modes : Binarate(mode)

SpecBin == Init /\ [][NextBin]_vars

\* construction and window alone, on longer records and longer rise times
NextWin ==
    \/ \E s \in StepSignals(MaxWinLen), dt \in DtVals : Ingest(s, dt)
    \/ \E tw \in TwWinVals : Window(tw)

SpecWin == Init /\ [][NextWin]_vars

\* construction to filter on constant records of any length, unwindowed
NextAxis ==
    \/ \E s \in ConstSignals(MaxAxisLen), dt \in DtVals : Ingest(s, dt)
    \/ Window(0)
    \/ Fft
    \/ \E bw \in BwVals, order \in OrderVals : Filter(bw, order)

SpecAxis == Init /\ [][NextAxis]_vars

\* construction to fit on constant records of any length, unwindowed and
\* not truncated
NextFit ==
    \/ \E s \in ConstSignals(MaxFitLen), dt \in DtVals : Ingest(s, dt)
    \/ Window(0)
    \/ Fft
    \/ \E bw \in BwVals, order \in OrderVals : Filter(bw, order)
    \/ Ifft
    \/ Trim
    \/ \E dtc \in ChunkVals : Fit(dtc)

SpecFit == Init /\ [][NextFit]_vars

\* ================================================================ claims
Stages == <<"binarate", "window", "fft", "filter", "ifft", "trim", "fit">>

Completed(op) == \E i \in 1..Len(report) : report[i] = EntryOf(op)

\* k is a power of two: every divisor of k above 1 is even
IsPow2(k) == k >= 1 /\ \A d \in 2..k : (k % d = 0 => d % 2 = 0)

\* this step is a call of op
Calls(op) == last'.op = op

\* C1: a binarate call on a record of n >= 1 samples (time as long as the
\* samples) returns; samples and time then have the length n2, the power
\* of two with n2 <= n < 2*n2, and hold the elements the call found at
\* [0, n2) for start, [n-n2, n) for end, [(n-n2) div 2, (n-n2) div 2 + n2)
\* for middle; a record whose length is a power of two keeps both arrays.
C1_BinarateStep ==
    LET s == signal["s"]
        t == signal["t"]
        n == Len(s)
        s2 == signal'["s"]
        t2 == signal'["t"]
        n2 == Len(s2)
        mode == last'.arg
        off == CASE mode = "start" -> 0
                 [] mode = "end" -> n - n2
                 [] mode = "middle" -> (n - n2) \div 2
    IN  (Calls("binarate") /\ last'.arg \in {"start", "middle", "end"}
            /\ n >= 1 /\ Len(t) = n)
        => /\ last'.ok
           /\ IsPow2(n2) /\ n2 <= n /\ n < 2 * n2
           /\ Len(t2) = n2
           /\ \A i \in 1..n2 : s2[i] = s[off + i] /\ t2[i] = t[off + i]
           /\ (IsPow2(n) => s2 = s /\ t2 = t)

C1_Binarate == [][C1_BinarateStep]_vars

\* a middle truncation 7 -> 4 that dropped one sample in front, two behind
C1_Witness ==
    /\ last.op = "binarate" /\ last.arg = "middle" /\ last.ok
    /\ signal["dt"] = 1
    /\ Len(signal["s_original"]) = 7
    /\ signal["t"] = <<1, 2, 3, 4>>

\* C2 as written: samples and time have the same length after every stage
\* call, trim included.
C2_SameLength ==
    created => Len(signal["s"]) = Len(signal["t"])

\* C2: samples and time have the same length after every stage call made
\* before the first completed trim.
C2_SameLengthUntilTrim ==
    (created /\ ~Completed("trim")) => Len(signal["s"]) = Len(signal["t"])

\* a truncated record taken as far as ifft, trim not yet run
C2_Witness ==
    /\ last.op = "ifft" /\ last.ok
    /\ ~Completed("trim")
    /\ Has(signal, "s_original")
    /\ Len(signal["s_original"]) = 3
    /\ Len(signal["s"]) = 2 /\ Len(signal["t"]) = 2

\* C3: a trim call with count idx >= 0 and 2*idx < L (L the length of
\* phase) leaves in analyticSignal, phase, amplitude and time the elements
\* it found at [idx, L-idx); with idx = 0 the four arrays are unchanged.
C3_TrimStep ==
    LET idx == TrimCount(signal["td"], signal["dt"])
        L == Len(signal["theta"])
        Kept(x) == SubSeq(x, idx + 1, L - idx)
    IN  (Calls("trim") /\ last'.ok /\ idx >= 0 /\ 2 * idx < L
            /\ Len(signal["t"]) = L)
        => /\ signal'["z"] = Kept(signal["z"])
           /\ signal'["theta"] = Kept(signal["theta"])
           /\ signal'["a"] = Kept(signal["a"])
           /\ signal'["t"] = Kept(signal["t"])

C3_Trim == [][C3_TrimStep]_vars

\* C4: a trim call with 2*idx >= L raises and changes none of the four
\* arrays; no trim call returns leaving them empty.
C4_TrimStep ==
    Calls("trim")
    => /\ (Has(signal, "td") /\ Has(signal, "z") /\ signal["dt"] # 0
             /\ 2 * TrimCount(signal["td"], signal["dt"]) >= Len(signal["z"]))
          => (~last'.ok /\ signal' = signal)
       /\ last'.ok => Len(signal'["z"]) > 0

C4_TrimFails == [][C4_TrimStep]_vars

\* C5: a stage call returns only when every stage before it in the order
\* binarate, window, fft, filter, ifft, trim, fit has completed.
C5_OrderStep ==
    \A k \in 1..Len(Stages) :
        (Calls(Stages[k]) /\ last'.ok)
        => \A j \in 1..(k - 1) : Completed(Stages[j])

C5_Order == [][C5_OrderStep]_vars

\* C6: a call that raises leaves every field of the record and the report
\* log as it found them.
C6_NoPartialStep ==
    ~last'.ok => (signal' = signal /\ report' = report)

C6_NoPartial == [][C6_NoPartialStep]_vars

\* the right-hand spectrum rh * swFT the last filter call computed
RightHandZero ==
    /\ Has(signal, "rh") /\ Has(signal, "swFT")
    /\ Len(signal["rh"]) = Len(signal["swFT"])
    /\ \A k \in 1..Len(signal["rh"]) :
           CIsZero(CScale(signal["rh"][k], signal["swFT"][k]))

\* C7: a filter call (bandwidth > 0) whose right-hand spectrum is zero at
\* every bin raises and records no carrier frequency estimate.
C7_Degenerate ==
    (last.op = "filter" /\ last.arg[1] > 0 /\ RightHandZero)
    => (~last.ok /\ ~Has(signal, "f0") /\ ~Has(signal, "f00"))

\* x is an integer nearest to p/q (q > 0); either neighbour of a half counts
Nearest(x, p, q) == 2 * Abs(x * q - p) <= q

\* C8 as written: with samplesPerChunk >= 1 the fit returns, samplesPerChunk
\* is round(dtChunkTarget/dt), the number of chunks is round(L/samplesPerChunk)
\* and the samples used, chunks * samplesPerChunk, do not exceed L.
C8_FitRoundStep ==
    LET dt == signal["dt"]
        npc == NPerChunk(last'.arg, dt)
        L == Len(signal["theta"])
        chunks == Len(signal'["fit_freq"])
    IN  (Calls("fit") /\ dt > 0 /\ Has(signal, "theta") /\ npc >= 1)
        => /\ last'.ok
           /\ Nearest(npc, last'.arg, dt)
           /\ Nearest(chunks, L, npc)
           /\ chunks * npc <= L

C8_FitRound == [][C8_FitRoundStep]_vars

\* C8: with samplesPerChunk = round(dtChunkTarget/dt) >= 1 and time no
\* shorter than the samples used, the fit returns; the number of chunks is
\* floor(L/samplesPerChunk), fit_freq and fit_time have one entry a chunk,
\* fit_time holding the time of each chunk's first sample, and the
\* L - chunks*samplesPerChunk < samplesPerChunk samples left over are dropped.
C8_FitFloorStep ==
    LET dt == signal["dt"]
        npc == NPerChunk(last'.arg, dt)
        L == Len(signal["theta"])
        chunks == Len(signal'["fit_freq"])
    IN  (Calls("fit") /\ dt > 0 /\ Has(signal, "theta") /\ npc >= 1
            /\ Len(signal["t"]) >= L - (L % npc))
        => /\ last'.ok
           /\ Nearest(npc, last'.arg, dt)
           /\ chunks * npc <= L /\ L < (chunks + 1) * npc
           /\ Len(signal'["fit_time"]) = chunks
           /\ \A c \in 1..chunks :
                  signal'["fit_time"][c] = signal["t"][(c - 1) * npc + 1]

C8_FitFloor == [][C8_FitFloorStep]_vars

\* a fit of three phase samples in chunks of two: one chunk, one sample left
C8_Witness ==
    /\ last.op = "fit" /\ last.ok /\ last.arg = 2
    /\ signal["dt"] = 1
    /\ Len(signal["theta"]) = 3
    /\ Len(signal["fit_freq"]) = 1

\* C9: no record is created from dt <= 0 or from an empty sample sequence.
C9_IngestRejects ==
    (created /\ last.op = "init")
    => (signal["dt"] > 0 /\ Len(signal["s"]) > 0)

\* C10: once binarate has captured originalSamples and originalTime, no
\* later call changes them.
C10_SnapshotStep ==
    Has(signal, "s_original")
    => /\ signal'["s_original"] = signal["s_original"]
       /\ signal'["t_original"] = signal["t_original"]

C10_SnapshotOnce == [][C10_SnapshotStep]_vars

\* C11: construction leaves a report of exactly one entry; a stage call
\* that returns leaves the report it found with exactly one entry added at
\* the end; a stage call that raises leaves the report as it found it.  (By
\* induction the report has 1 + the number of returned stage calls entries.)
C11_AppendStep ==
    /\ Calls("init") => Len(report') = 1
    /\ (~Calls("init") /\ last'.ok)
       => /\ Len(report') = Len(report) + 1
          /\ SubSeq(report', 1, Len(report)) = report
    /\ ~last'.ok => report' = report

C11_AppendOnly == [][C11_AppendStep]_vars

\* a fit that raised after the six stages before it returned: the report
\* holds the entry of the construction and theirs, no more
C11_Witness ==
    /\ last.op = "fit" /\ ~last.ok
    /\ Len(report) = 7
    /\ \A k \in 1..6 : report[k + 1] = EntryOf(Stages[k])

\* C12: a window(tw) call on a record of n samples with dt > 0, w the least
\* integer with w*dt >= tw: when 2w <= n it returns, the window has n
\* entries, those at [w, n-w) are 1 (all of them when tw = 0),
\* windowedSignal[i] = window[i]*samples[i] and actualRiseTime = w*dt; when
\* 2w > n it raises and leaves the record as it found it.
C12_WindowStep ==
    LET dt == signal["dt"]
        tw == last'.arg
        s == signal["s"]
        n == Len(s)
        w == CHOOSE k \in 0..tw :
                 k * dt >= tw /\ (k = 0 \/ (k - 1) * dt < tw)
    IN  (Calls("window") /\ dt > 0)
        => IF 2 * w <= n
           THEN /\ last'.ok
                /\ Len(signal'["w"]) = n
                /\ \A i \in (w + 1)..(n - w) : signal'["w"][i] = QInt(1)
                /\ tw = 0 => \A i \in 1..n : signal'["w"][i] = QInt(1)
                /\ Len(signal'["sw"]) = n
                /\ \A i \in 1..n :
                       signal'["sw"][i] = QMul(signal'["w"][i], QInt(s[i]))
                /\ signal'["tw_actual"] = w * dt
           ELSE ~last'.ok /\ signal' = signal

C12_Window == [][C12_WindowStep]_vars

\* a rise time of two samples on a record of five: the taper 0, 0.63 on each
\* side of one sample of unity
C12_Witness ==
    /\ last.op = "window" /\ last.ok /\ last.arg = 2
    /\ signal["dt"] = 1
    /\ signal["s"] = <<0, 1, 1, 1, 1>>
    /\ signal["w"] = <<QInt(0), Q(63, 100), QInt(1), Q(63, 100), QInt(0)>>
    /\ signal["tw_actual"] = 2

\* C13: after a filter call on a record of even length n the frequency axis
\* is f[k] = (k - n/2)*freqStep (k from 0), the half-bin-shifted value
\* f[k] - freqStep/2 is nonzero at every bin, and the right-hand mask is 0
\* at every bin with f <= 0, the bin f = 0 included, and 2 at every bin with
\* f > 0.
C13_RightHand ==
    (Has(signal, "rh") /\ Len(signal["rh"]) % 2 = 0)
    => LET f == signal["f"]
           df == signal["df"]
           rh == signal["rh"]
           n == Len(rh)
       IN  /\ Len(f) = n
           /\ \A k \in 1..n :
                  /\ f[k] = QMul(QInt(k - 1 - n \div 2), df)
                  /\ QSub(f[k], QDiv(df, QInt(2))) # QInt(0)
                  /\ ~IsNaN(rh[k])
                  /\ rh[k] = IF QLess(QInt(0), f[k]) THEN QInt(2) ELSE QInt(0)
           /\ \E k \in 1..n : f[k] = QInt(0) /\ rh[k] = QInt(0)

\* a filtered record of six samples: four bins at or below zero frequency,
\* two above
C13_Witness ==
    /\ last.op = "filter" /\ last.ok
    /\ signal["dt"] = 1
    /\ signal["f"] = <<Q(-1, 2), Q(-1, 3), Q(-1, 6), QInt(0), Q(1, 6), Q(1, 3)>>
    /\ signal["rh"] = <<QInt(0), QInt(0), QInt(0), QInt(0), QInt(2), QInt(2)>>

\* C14: the count a returning trim call removes from each end is an integer
\* nearest to settlingTime/dt.
C14_TrimRoundStep ==
    (Calls("trim") /\ last'.ok)
    => LET x == QDiv(signal["td"], QInt(signal["dt"]))
       IN  Nearest(TrimCount(signal["td"], signal["dt"]), x[1], x[2])

C14_TrimRound == [][C14_TrimRoundStep]_vars

\* the inverse of the centering permutation: Uncenter(FftShift(x)) = x
Uncenter(y) ==
    LET n == Len(y)
    IN  [m \in 1..n |-> y[((m - 1 + n \div 2) % n) + 1]]

\* C15: at every length n >= 1 a returning ifft call leaves as
\* analyticSignal the inverse transform of the filtered spectrum put back
\* in natural order by the inverse of the centering permutation.
C15_RoundTripStep ==
    (Calls("ifft") /\ last'.ok /\ Len(signal["swFTfilt"]) >= 1)
    => /\ Uncenter(FftShift(signal["swFTfilt"])) = signal["swFTfilt"]
       /\ signal'["z"] = IDFT(Uncenter(signal["swFTfilt"]))

C15_RoundTrip == [][C15_RoundTripStep]_vars

\* ------------------------------------------------------- the chunks of a fit
\* the reset time and phase of sample k (from 1) of chunk c (from 0)
ChunkX(t, npc, c, k) == QInt(t[c * npc + k] - t[c * npc + 1])
ChunkY(theta, npc, c, k) == QSub(theta[c * npc + k], theta[c * npc + 1])

\* the sums of the chunk taken term by term
SumX(t, npc, c) == QSum([k \in 1..npc |-> ChunkX(t, npc, c, k)], npc)
SumXX(t, npc, c) ==
    QSum([k \in 1..npc |->
            QMul(ChunkX(t, npc, c, k), ChunkX(t, npc, c, k))], npc)
SumY(theta, npc, c) == QSum([k \in 1..npc |-> ChunkY(theta, npc, c, k)], npc)
SumXY(t, theta, npc, c) ==
    QSum([k \in 1..npc |->
            QMul(ChunkX(t, npc, c, k), ChunkY(theta, npc, c, k))], npc)

\* the ordinary least-squares slope of the chunk from those sums
OLS(t, theta, npc, c) ==
    LET n == QInt(npc)
        sx == SumX(t, npc, c)
    IN  QDiv(QSub(QMul(n, SumXY(t, theta, npc, c)),
                  QMul(sx, SumY(theta, npc, c))),
             QSub(QMul(n, SumXX(t, npc, c)), QMul(sx, sx)))

\* the chunk's phase is q times its time
Linear(t, theta, npc, c, q) ==
    \A k \in 1..npc :
        ChunkY(theta, npc, c, k) = QMul(q, ChunkX(t, npc, c, k))

\* the ratio phase/time at the chunk's second sample (0 for a chunk of one)
Ratio(t, theta, npc, c) ==
    IF npc >= 2
    THEN QDiv(ChunkY(theta, npc, c, 2), ChunkX(t, npc, c, 2))
    ELSE QInt(0)

\* C16 as written: in every chunk of a returning fit, for every chunk size
\* n >= 1, the analytic Sx and Sxx equal the sums of the reset times and of
\* their squares, the slope is the least-squares slope from those sums, and
\* the slope is c when the chunk's phase is c times its time.
C16_FitSumsAllStep ==
    LET dt == signal["dt"]
        npc == NPerChunk(last'.arg, dt)
        t == signal["t"]
        theta == signal["theta"]
    IN  (Calls("fit") /\ last'.ok)
        => \A c \in 0..(Len(signal'["fit_freq"]) - 1) :
              /\ SX(dt, npc) = SumX(t, npc, c)
              /\ SXX(dt, npc) = SumXX(t, npc, c)
              /\ signal'["fit_freq"][c + 1] = OLS(t, theta, npc, c)
              /\ Linear(t, theta, npc, c, Ratio(t, theta, npc, c))
                 => signal'["fit_freq"][c + 1] = Ratio(t, theta, npc, c)

C16_FitSumsStep ==
    LET dt == signal["dt"]
        npc == NPerChunk(last'.arg, dt)
        t == signal["t"]
        theta == signal["theta"]
    IN  (Calls("fit") /\ last'.ok)
        => \A c \in 0..(Len(signal'["fit_freq"]) - 1) :
              /\ SX(dt, npc) = SumX(t, npc, c)
              /\ SXX(dt, npc) = SumXX(t, npc, c)
              /\ npc >= 2
                 => /\ signal'["fit_freq"][c + 1] = OLS(t, theta, npc, c)
                    /\ Linear(t, theta, npc, c, Ratio(t, theta, npc, c))
                       => signal'["fit_freq"][c + 1] = Ratio(t, theta, npc, c)
              /\ npc = 1 => IsNaN(signal'["fit_freq"][c + 1])

C17_FitTimeStep ==
    LET npc == NPerChunk(last'.arg, signal["dt"])
        L == Len(signal["theta"])
    IN  (Calls("fit") /\ last'.ok)
        => \E numChunks \in 0..L :
              /\ numChunks * npc <= L /\ L < (numChunks + 1) * npc
              /\ Len(signal'["fit_time"]) = numChunks
              /\ Len(signal'["fit_freq"]) = numChunks
              /\ signal'["t"] = signal["t"]
              /\ \A i \in 0..(numChunks - 1) :
                     signal'["fit_time"][i + 1] = signal["t"][i * npc + 1]

C17_FitTime == [][C17_FitTimeStep]_vars

\* a fit in chunks of two of the four samples a trim left of six: the
\* chunks start at times 1 and 3
C17_Witness ==
    /\ last.op = "fit" /\ last.ok /\ last.arg = 2
    /\ signal["dt"] = 1
    /\ signal["t"] = <<1, 2, 3, 4>>
    /\ Len(signal["fit_freq"]) = 2
    /\ signal["fit_time"] = <<1, 3>>

\* C18: in a returning fit, whatever samplesPerChunk n >= 1, the
\* denominator n*Sxx - Sx^2 is above zero and, the phase being finite, every
\* slope is a number.
C18_DenominatorStep ==
    LET dt == signal["dt"]
        npc == NPerChunk(last'.arg, dt)
        theta == signal["theta"]
        den == QSub(QMul(QInt(npc), SXX(dt, npc)),
                    QMul(SX(dt, npc), SX(dt, npc)))
    IN  (Calls("fit") /\ last'.ok /\ \A k \in 1..Len(theta) : ~IsNaN(theta[k]))
        => /\ QLess(QInt(0), den)
           /\ \A c \in 1..Len(signal'["fit_freq"]) :
                  ~IsNaN(signal'["fit_freq"][c])

C18_Denominator == [][C18_DenominatorStep]_vars

====
